---- MODULE Spec2Model ----
(***************************************************************************)
(* Model of src/alpha-token/holding-incentive.py: the RewardCalculator     *)
(* that distributes a fixed pool of MASA tokens over staking positions.    *)
(*                                                                         *)
(* Dates are day ordinals (date.toordinal()).  A Decimal is a record       *)
(*   [neg |-> BOOLEAN, dig |-> coefficient digits, exp |-> exponent]       *)
(* whose value is (-1)^neg * dig * 10^exp.  Python compares Decimals by    *)
(* value, so every Decimal is kept in the normal form of its value: no     *)
(* leading and no trailing zero digit, and zero is [FALSE, <<>>, 0].  The   *)
(* arithmetic rounds as Python's default context does: PREC significant    *)
(* digits, ROUND_HALF_EVEN.                                                *)
(***************************************************************************)
EXTENDS Integers, Sequences, FiniteSets, TLC

\* decimal.getcontext().prec of the default context the module computes in
PREC == 28

-----------------------------------------------------------------------------
(* Digit strings: sequences over 0..9, most significant digit first.       *)

Max(a, b) == IF a >= b THEN a ELSE b
Min(a, b) == IF a <= b THEN a ELSE b

Zeros(n) == [i \in 1..n |-> 0]

\* how many zero digits x starts with, and ends with
LeadingZeros(x) ==
    CHOOSE t \in 0..Len(x) :
        /\ t = Len(x) \/ x[t + 1] # 0
        /\ \A j \in 1..t : x[j] = 0

TrailingZeros(x) ==
    CHOOSE t \in 0..Len(x) :
        /\ t = Len(x) \/ x[Len(x) - t] # 0
        /\ \A j \in (Len(x) - t + 1)..Len(x) : x[j] = 0

StripLeft(x) == SubSeq(x, LeadingZeros(x) + 1, Len(x))

RECURSIVE NatDigits(_)
NatDigits(n) == IF n = 0 THEN <<>> ELSE Append(NatDigits(n \div 10), n % 10)

\* digit of x at position i counted from the right, starting at 0
DigitAt(x, i) == IF i < Len(x) THEN x[Len(x) - i] ELSE 0

(* The carries run over limbs of three digits, least significant limb      *)
(* first, which keeps the recursion shallow; limb j holds digits 3j-3 to   *)
(* 3j-1 counted from the right.                                            *)
ToLimbs(x) ==
    [j \in 1..((Len(x) + 2) \div 3) |->
        DigitAt(x, 3 * j - 3) + 10 * DigitAt(x, 3 * j - 2)
            + 100 * DigitAt(x, 3 * j - 1)]

FromLimbs(L) ==
    StripLeft([p \in 1..(3 * Len(L)) |->
        LET i == 3 * Len(L) - p
            l == L[(i \div 3) + 1]
        IN  IF i % 3 = 0 THEN l % 10
            ELSE IF i % 3 = 1 THEN (l \div 10) % 10
            ELSE (l \div 100) % 10])

LimbAt(L, j) == IF j <= Len(L) THEN L[j] ELSE 0

RECURSIVE Propagate(_, _, _, _)
\* the limbs of the column sums cols: cols[j] is the column of 1000^(j-1)
Propagate(cols, j, carry, acc) ==
    IF j > Len(cols) /\ carry = 0 THEN acc
    ELSE LET s   == LimbAt(cols, j) + carry
             out == Append(acc, s % 1000)
         IN  IF s < 1000 /\ Len(out) > 0
             THEN Propagate(cols, j + 1, 0, out)
             ELSE Propagate(cols, j + 1, s \div 1000, out)

RECURSIVE Borrow(_, _, _, _)
\* the limbs of the column differences cols, each in -999..999, whose total
\* is not negative
Borrow(cols, j, borrow, acc) ==
    IF j > Len(cols) THEN acc
    ELSE LET s   == cols[j] - borrow
             out == Append(acc, IF s < 0 THEN s + 1000 ELSE s)
         IN  IF s < 0 /\ Len(out) > 0
             THEN Borrow(cols, j + 1, 1, out)
             ELSE Borrow(cols, j + 1, 0, out)

AddMag(x, y) ==
    LET L == ToLimbs(x)
        M == ToLimbs(y)
        cols == [j \in 1..Max(Len(L), Len(M)) |-> LimbAt(L, j) + LimbAt(M, j)]
    IN  FromLimbs(Propagate(cols, 1, 0, <<>>))

\* x - y for x >= y
SubMag(x, y) ==
    LET L == ToLimbs(x)
        M == ToLimbs(y)
        cols == [j \in 1..Max(Len(L), Len(M)) |-> LimbAt(L, j) - LimbAt(M, j)]
    IN  FromLimbs(Borrow(cols, 1, 0, <<>>))

\* -1, 0, 1 as x <, =, > y; both without leading zeros
CmpMag(x, y) ==
    IF Len(x) < Len(y) THEN -1
    ELSE IF Len(x) > Len(y) THEN 1
    ELSE IF x = y THEN 0
    ELSE LET i == CHOOSE i \in 1..Len(x) :
                      x[i] # y[i] /\ \A j \in 1..(i - 1) : x[j] = y[j]
         IN  IF x[i] < y[i] THEN -1 ELSE 1

RECURSIVE ColumnSum(_, _, _, _)
\* sum of L[i] * M[k + 1 - i] for i in lo..k
ColumnSum(L, M, k, lo) ==
    IF lo > k \/ lo > Len(L) THEN 0
    ELSE L[lo] * LimbAt(M, k + 1 - lo) + ColumnSum(L, M, k, lo + 1)

\* x * y, schoolbook: column sums, then one pass of carries
MulMag(x, y) ==
    IF x = <<>> \/ y = <<>> THEN <<>>
    ELSE LET L == ToLimbs(x)
             M == ToLimbs(y)
             cols == [k \in 1..(Len(L) + Len(M) - 1) |->
                         ColumnSum(L, M, k, Max(1, k + 1 - Len(M)))]
         IN  FromLimbs(Propagate(cols, 1, 0, <<>>))

-----------------------------------------------------------------------------
(* Decimal values.                                                         *)

DecZero == [neg |-> FALSE, dig |-> <<>>, exp |-> 0]

\* the normal form of (-1)^neg * dig * 10^exp
Normal(neg, dig, exp) ==
    LET d == StripLeft(dig)
        t == TrailingZeros(d)
    IN  IF d = <<>> THEN DecZero
        ELSE [neg |-> neg, dig |-> SubSeq(d, 1, Len(d) - t), exp |-> exp + t]

IsZero(a) == a.dig = <<>>

\* Decimal(str(n)) for an integer n
Decimal(n) == IF n < 0 THEN Normal(TRUE, NatDigits(-n), 0)
              ELSE Normal(FALSE, NatDigits(n), 0)

\* Decimal('c E e'): coefficient c (an integer) and exponent e, as in '1.2'
DecimalLit(c, e) ==
    IF c < 0 THEN Normal(TRUE, NatDigits(-c), e) ELSE Normal(FALSE, NatDigits(c), e)

\* Context rounding (Decimal._fix): dig * 10^exp, with `sticky` saying that
\* non-zero digits follow dig, rounded half-even to PREC significant digits.
Round(neg, dig, exp, sticky) ==
    IF Len(dig) <= PREC THEN Normal(neg, dig, exp)
    ELSE LET kept == SubSeq(dig, 1, PREC)
             g    == dig[PREC + 1]
             rest == sticky \/ \E i \in (PREC + 2)..Len(dig) : dig[i] # 0
             up   == g > 5 \/ (g = 5 /\ (rest \/ kept[PREC] % 2 = 1))
         IN  Normal(neg, IF up THEN AddMag(kept, <<1>>) ELSE kept,
                    exp + (Len(dig) - PREC))

\* the coefficient of a at exponent e <= a.exp
Coeff(a, e) == IF IsZero(a) THEN <<>> ELSE a.dig \o Zeros(a.exp - e)

\* the exact sum, before rounding
ExactAdd(a, b) ==
    LET e  == IF IsZero(a) THEN b.exp ELSE IF IsZero(b) THEN a.exp
              ELSE Min(a.exp, b.exp)
        x  == Coeff(a, e)
        y  == Coeff(b, e)
        c  == CmpMag(x, y)
    IN  IF a.neg = b.neg THEN [neg |-> a.neg, dig |-> AddMag(x, y), exp |-> e]
        ELSE IF c = 0 THEN DecZero
        ELSE IF c > 0 THEN [neg |-> a.neg, dig |-> SubMag(x, y), exp |-> e]
        ELSE [neg |-> b.neg, dig |-> SubMag(y, x), exp |-> e]

DecNeg(a) == IF IsZero(a) THEN a ELSE [a EXCEPT !.neg = ~a.neg]

\* the exact product, before rounding
ExactMul(a, b) ==
    IF IsZero(a) \/ IsZero(b) THEN DecZero
    ELSE [neg |-> a.neg # b.neg, dig |-> MulMag(a.dig, b.dig), exp |-> a.exp + b.exp]

\* Decimal.__add__, __sub__, __mul__
DecAdd(a, b) == LET s == ExactAdd(a, b) IN Round(s.neg, s.dig, s.exp, FALSE)
DecSub(a, b) == DecAdd(a, DecNeg(b))
DecMul(a, b) == LET p == ExactMul(a, b) IN Round(p.neg, p.dig, p.exp, FALSE)

\* -1, 0, 1 as a <, =, > b (Decimal comparison is by value)
DecCmp(a, b) ==
    LET d == ExactAdd(a, DecNeg(b))
    IN  IF IsZero(d) THEN 0 ELSE IF d.neg THEN -1 ELSE 1

DecLt(a, b) == DecCmp(a, b) < 0
DecLe(a, b) == DecCmp(a, b) <= 0
DecGt(a, b) == DecCmp(a, b) > 0
DecGe(a, b) == DecCmp(a, b) >= 0
DecEq(a, b) == DecCmp(a, b) = 0

\* the multiples 0 * y, 1 * y, ... 9 * y of a digit string y
Multiples(y) ==
    <<<<>>, y, MulMag(y, <<2>>), MulMag(y, <<3>>), MulMag(y, <<4>>),
      MulMag(y, <<5>>), MulMag(y, <<6>>), MulMag(y, <<7>>), MulMag(y, <<8>>),
      MulMag(y, <<9>>)>>

\* how many times y goes into cur < 10 * y, given the multiples of y
QuotientDigit(cur, mults) ==
    CHOOSE d \in 0..9 :
        /\ CmpMag(mults[d + 1], cur) <= 0
        /\ d = 9 \/ CmpMag(mults[d + 2], cur) > 0

\* Long division of the digit string x by the digit string whose multiples
\* are mults: the digits of x, then zeros, are brought down one at a time
\* until the digits of x are used up and either the remainder is 0 or
\* PREC + 1 significant quotient digits exist.  k counts the digits brought
\* down, rem is the remainder and q the quotient so far.
RECURSIVE DivLoop(_, _, _, _, _)
DivLoop(x, mults, k, rem, q) ==
    IF (Len(q) >= PREC + 1 \/ rem = <<>>) /\ k >= Len(x)
    THEN [q |-> q, k |-> k, rem |-> rem]
    ELSE LET cur == StripLeft(Append(rem, IF k < Len(x) THEN x[k + 1] ELSE 0))
             d   == QuotientDigit(cur, mults)
         IN  DivLoop(x, mults, k + 1, SubMag(cur, mults[d + 1]),
                     IF q = <<>> /\ d = 0 THEN q ELSE Append(q, d))

\* raised by Decimal.__truediv__ for a zero divisor (DivisionByZero, and
\* InvalidOperation for 0/0)
DivisionFault == [raised |-> "DivisionByZero"]

\* Decimal.__truediv__
DecDiv(a, b) ==
    IF IsZero(b) THEN DivisionFault
    ELSE IF IsZero(a) THEN DecZero
    ELSE LET r == DivLoop(a.dig, Multiples(b.dig), 0, <<>>, <<>>)
         IN  Round(a.neg # b.neg, r.q, a.exp - b.exp - (r.k - Len(a.dig)),
                   r.rem # <<>>)

-----------------------------------------------------------------------------
(* The program: ParticipantPosition and RewardCalculator.                  *)

VARIABLES
    participants,       \* self.participants: the dict, as its entries in
                        \* insertion order (the order a dict iterates in)
    launch_date,        \* self.launch_date
    program_end_date,   \* self.program_end_date
    returned,           \* what the calls of calculate_all_rewards made since
                        \* the last add_participant returned; the last two
    position,           \* the ParticipantPosition the last call that takes one
                        \* was given (add_participant, or a direct call of
                        \* calculate_individual_weights)
    weights             \* what a direct call of calculate_individual_weights
                        \* returned

vars == <<participants, launch_date, program_end_date, returned, position, weights>>

\* class constants
TOTAL_REWARD_POOL == Decimal(15000000)
MAX_ALPHA_STAKE_DAYS == 120
MIN_MASA_STAKE_DAYS == 90
VALID_MASA_STAKE_MONTHS == {3, 6, 9, 12}

\* Python's None
None == [none |-> TRUE]

\* the dataclass constructor: it stores its arguments and checks nothing
ParticipantPosition(hotkey, evm_address, alpha_staked, masa_staked, masa_stake_months, join_date) ==
    [hotkey |-> hotkey, evm_address |-> evm_address,
     alpha_staked |-> alpha_staked, masa_staked |-> masa_staked,
     masa_stake_months |-> masa_stake_months, join_date |-> join_date]

calculate_end_date(launch) == launch + MAX_ALPHA_STAKE_DAYS

\* a slip: the 6 month tier is missing from the table
get_masa_stake_multiplier_NoSixMonths(months) ==
    IF months = 3 THEN DecimalLit(10, -1)
    ELSE IF months = 9 THEN DecimalLit(15, -1)
    ELSE IF months = 12 THEN DecimalLit(15, -1)
    ELSE Decimal(0)

get_masa_stake_multiplier(months) ==
    IF months = 3 THEN DecimalLit(10, -1)
    ELSE IF months = 6 THEN DecimalLit(12, -1)
    ELSE IF months = 9 THEN DecimalLit(15, -1)
    ELSE IF months = 12 THEN DecimalLit(15, -1)
    ELSE Decimal(0)

\* a slip: the decay runs over MIN_MASA_STAKE_DAYS instead of MAX_ALPHA_STAKE_DAYS
AlphaTimeMultiplier_OverMinDays(days_since_launch) ==
    DecSub(DecimalLit(10, -1),
           DecMul(DecDiv(Decimal(days_since_launch), Decimal(MIN_MASA_STAKE_DAYS)),
                  DecimalLit(75, -2)))

\* line 98: the time-based multiplier of the alpha stake
AlphaTimeMultiplier(days_since_launch) ==
    DecSub(DecimalLit(10, -1),
           DecMul(DecDiv(Decimal(days_since_launch), Decimal(MAX_ALPHA_STAKE_DAYS)),
                  DecimalLit(75, -2)))

\* lines 102 to 111: the dict calculate_individual_weights returns
WeightsDict(alpha_weight, masa_weight, alpha_time_multiplier, masa_multiplier, days_since_launch) ==
    [total_weight |-> DecAdd(alpha_weight, masa_weight),
     alpha_weight |-> alpha_weight,
     masa_weight |-> masa_weight,
     alpha_time_multiplier |-> alpha_time_multiplier,
     masa_multiplier |-> masa_multiplier,
     days_since_launch |-> days_since_launch]

\* lines 100 to 111, given the two multipliers
Weigh(pos, alpha_time_multiplier, masa_multiplier, days_since_launch) ==
    WeightsDict(DecMul(pos.alpha_staked, alpha_time_multiplier),
                DecMul(pos.masa_staked, masa_multiplier),
                alpha_time_multiplier, masa_multiplier, days_since_launch)

\* a slip: the stake duration is not checked, so an unknown duration weighs
\* with multiplier 0
IndividualWeights_NoMonthsCheck(pos, launch, end) ==
    IF pos.join_date < launch \/ pos.join_date > end THEN None
    ELSE Weigh(pos, AlphaTimeMultiplier(pos.join_date - launch),
               get_masa_stake_multiplier(pos.masa_stake_months),
               pos.join_date - launch)

\* calculate_individual_weights of a calculator with the given dates
IndividualWeights(pos, launch, end) ==
    IF pos.join_date < launch \/ pos.join_date > end THEN None
    ELSE IF pos.masa_stake_months \notin VALID_MASA_STAKE_MONTHS THEN None
    ELSE Weigh(pos, AlphaTimeMultiplier(pos.join_date - launch),
               get_masa_stake_multiplier(pos.masa_stake_months),
               pos.join_date - launch)

\* first pass, one entry: its (hotkey, position, weights) triple if its
\* weights are not None
WeightsEntry(e, w) ==
    IF w # None THEN <<[hotkey |-> e.hotkey, position |-> e.position, weights |-> w]>>
    ELSE <<>>

\* first pass: participant_weights, in iteration order
RECURSIVE ParticipantWeights(_, _, _)
ParticipantWeights(parts, launch, end) ==
    IF parts = <<>> THEN <<>>
    ELSE ParticipantWeights(SubSeq(parts, 1, Len(parts) - 1), launch, end)
             \o WeightsEntry(parts[Len(parts)],
                             IndividualWeights(parts[Len(parts)].position, launch, end))

\* a slip: the pool weight sums the alpha weights alone
RECURSIVE TotalPoolWeight_AlphaOnly(_)
TotalPoolWeight_AlphaOnly(pw) ==
    IF pw = <<>> THEN Decimal(0)
    ELSE DecAdd(TotalPoolWeight_AlphaOnly(SubSeq(pw, 1, Len(pw) - 1)),
                pw[Len(pw)].weights.alpha_weight)

\* first pass: total_pool_weight, summed in iteration order from Decimal('0')
RECURSIVE TotalPoolWeight(_)
TotalPoolWeight(pw) ==
    IF pw = <<>> THEN Decimal(0)
    ELSE DecAdd(TotalPoolWeight(SubSeq(pw, 1, Len(pw) - 1)),
                pw[Len(pw)].weights.total_weight)

\* line 130, for a share that a failed division did not produce
MasaReward(share_of_pool) ==
    IF share_of_pool = DivisionFault THEN DivisionFault
    ELSE DecMul(TOTAL_REWARD_POOL, share_of_pool)

\* lines 135 to 146: one result
ResultDict(t, share_of_pool, masa_reward) ==
    [hotkey |-> t.hotkey,
     position |-> t.position,
     total_weight |-> t.weights.total_weight,
     alpha_weight |-> t.weights.alpha_weight,
     masa_weight |-> t.weights.masa_weight,
     alpha_time_multiplier |-> t.weights.alpha_time_multiplier,
     masa_multiplier |-> t.weights.masa_multiplier,
     days_since_launch |-> t.weights.days_since_launch,
     share_of_pool |-> share_of_pool,
     estimated_masa_reward |-> masa_reward]

\* a slip: the guard is total_pool_weight >= 0
Normalized_GuardNotNegative(t, total_pool_weight, quotient) ==
    IF DecGe(total_pool_weight, Decimal(0))
    THEN ResultDict(t, quotient, MasaReward(quotient))
    ELSE ResultDict(t, Decimal(0), Decimal(0))

\* lines 128 to 133, given the quotient the division would produce
Normalized(t, total_pool_weight, quotient) ==
    IF DecGt(total_pool_weight, Decimal(0))
    THEN ResultDict(t, quotient, MasaReward(quotient))
    ELSE ResultDict(t, Decimal(0), Decimal(0))

\* a slip: the share is taken of the alpha weight
Result_AlphaWeightShare(t, total_pool_weight) ==
    Normalized(t, total_pool_weight,
               DecDiv(t.weights.alpha_weight, total_pool_weight))

\* second pass, one entry
Result(t, total_pool_weight) ==
    Normalized(t, total_pool_weight,
               DecDiv(t.weights.total_weight, total_pool_weight))

\* second pass
Results(participant_weights, total_pool_weight) ==
    [i \in 1..Len(participant_weights) |->
        Result(participant_weights[i], total_pool_weight)]

\* what a call leaves with: the list it returns, or the exception of a
\* division that failed
Outcome(results) ==
    IF \E i \in 1..Len(results) : results[i].share_of_pool = DivisionFault
    THEN [raised |-> TRUE, results |-> <<>>]
    ELSE [raised |-> FALSE, results |-> results]

SecondPass(participant_weights) ==
    Outcome(Results(participant_weights, TotalPoolWeight(participant_weights)))

\* calculate_all_rewards of a calculator with the given map and dates
AllRewards(parts, launch, end) ==
    SecondPass(ParticipantWeights(parts, launch, end))

-----------------------------------------------------------------------------
(* Inputs.                                                                 *)

\* date(2024, 1, 1).toordinal(), the launch date of main()
LaunchDate == 738886

\* the largest alpha amount staked in the runs
MaxAlphaStaked == 1

Hotkeys == {"hk1", "hk2"}
EvmAddresses == {"0x1"}
AlphaAmounts == {Decimal(n) : n \in -1..MaxAlphaStaked}
MasaAmounts == {Decimal(0), Decimal(1)}
StakeMonths == {4, 6}
JoinDates == {LaunchDate, LaunchDate + MAX_ALPHA_STAKE_DAYS,
              LaunchDate + MAX_ALPHA_STAKE_DAYS + 1}

\* the positions add_participant is called with
Positions ==
    {ParticipantPosition(h, e, a, m, mo, j) :
        h \in Hotkeys, e \in EvmAddresses, a \in AlphaAmounts,
        m \in MasaAmounts, mo \in StakeMonths, j \in JoinDates}

-----------------------------------------------------------------------------
(* Operations.                                                             *)

Init ==
    /\ participants = <<>>
    /\ launch_date = LaunchDate
    /\ program_end_date = calculate_end_date(LaunchDate)
    /\ returned = <<>>
    /\ position = None
    /\ weights = None

\* a slip: the participants are kept in a list that every call appends to
SetItem_Append(parts, pos) ==
    Append(parts, [hotkey |-> pos.hotkey, position |-> pos])

\* self.participants[position.hotkey] = position
SetItem(parts, pos) ==
    IF \E i \in 1..Len(parts) : parts[i].hotkey = pos.hotkey
    THEN [i \in 1..Len(parts) |->
             IF parts[i].hotkey = pos.hotkey
             THEN [hotkey |-> pos.hotkey, position |-> pos]
             ELSE parts[i]]
    ELSE Append(parts, [hotkey |-> pos.hotkey, position |-> pos])

add_participant(pos) ==
    /\ participants' = SetItem(participants, pos)
    /\ returned' = <<>>
    /\ position' = pos
    /\ UNCHANGED <<launch_date, program_end_date, weights>>

\* a slip: the call drops the entries it finds no weights for
HasWeights(e) == IndividualWeights(e.position, launch_date, program_end_date) # None
calculate_all_rewards_Prunes ==
    /\ LET result == AllRewards(participants, launch_date, program_end_date)
       IN  returned' = IF returned = <<>> THEN <<result>>
                       ELSE <<returned[Len(returned)], result>>
    /\ participants' = SelectSeq(participants, HasWeights)
    /\ UNCHANGED <<launch_date, program_end_date, position, weights>>

calculate_all_rewards ==
    /\ LET result == AllRewards(participants, launch_date, program_end_date)
       IN  returned' = IF returned = <<>> THEN <<result>>
                       ELSE <<returned[Len(returned)], result>>
    /\ UNCHANGED <<participants, launch_date, program_end_date, position, weights>>

Next ==
    \/ \E pos \in Positions : add_participant(pos)
    \/ calculate_all_rewards

Spec == Init /\ [][Next]_vars

-----------------------------------------------------------------------------
(* A direct call of calculate_individual_weights, over every join date from *)
(* the day before the launch to the day after the program's end.            *)

WeightHotkeys == {"hk1"}
WeightAlphaAmounts == {Decimal(-1), Decimal(0), Decimal(7), Decimal(1000)}
WeightMasaAmounts == {Decimal(0), Decimal(3), Decimal(10000)}
WeightMonths == {0, 3, 4, 6, 9, 12, 13}
WeightJoinDates == (LaunchDate - 1)..(LaunchDate + MAX_ALPHA_STAKE_DAYS + 1)

WeightPositions ==
    {ParticipantPosition(h, e, a, m, mo, j) :
        h \in WeightHotkeys, e \in EvmAddresses, a \in WeightAlphaAmounts,
        m \in WeightMasaAmounts, mo \in WeightMonths, j \in WeightJoinDates}

InitWeights ==
    /\ participants = <<>>
    /\ launch_date = LaunchDate
    /\ program_end_date = calculate_end_date(LaunchDate)
    /\ returned = <<>>
    /\ position \in WeightPositions
    /\ weights = None

calculate_individual_weights ==
    /\ weights' = IndividualWeights(position, launch_date, program_end_date)
    /\ UNCHANGED <<participants, launch_date, program_end_date, returned, position>>

NextWeights == calculate_individual_weights

SpecWeights == InitWeights /\ [][NextWeights]_vars

-----------------------------------------------------------------------------
(* What the properties are stated with.  Sums, products and comparisons    *)
(* here are exact: nothing is rounded.                                     *)

\* the tolerance "within rounding" stands for: 10^-EpsilonDigits
EpsilonDigits == 9
Epsilon == DecimalLit(1, 0 - EpsilonDigits)

Abs(a) == [a EXCEPT !.neg = FALSE]
Within(a, b, eps) == DecLe(Abs(ExactAdd(a, DecNeg(b))), eps)

RECURSIVE ExactSum(_)
ExactSum(ds) ==
    IF ds = <<>> THEN DecZero
    ELSE ExactAdd(ExactSum(SubSeq(ds, 1, Len(ds) - 1)), ds[Len(ds)])

\* calculate_all_rewards has returned since the map last changed
Called == returned # <<>>
Last == returned[Len(returned)]
LastResults == Last.results

Hotkey(e) == e.hotkey
HotkeysOf(entries) == [i \in 1..Len(entries) |-> entries[i].hotkey]
Distinct(seq) == \A i, j \in 1..Len(seq) : seq[i] = seq[j] => i = j

\* the eligibility rule, as the specification words it
Eligible(pos) ==
    /\ launch_date <= pos.join_date
    /\ pos.join_date <= launch_date + 120
    /\ pos.masa_stake_months \in {3, 6, 9, 12}

IsEligibleEntry(e) == Eligible(e.position)
EligibleEntries(parts) == SelectSeq(parts, IsEligibleEntry)

\* the weight of a stored eligible position, and the sum over the map
WeightOf(pos) == IndividualWeights(pos, launch_date, program_end_date).total_weight
EligibleWeights(parts) ==
    [i \in 1..Len(EligibleEntries(parts)) |-> WeightOf(EligibleEntries(parts)[i].position)]
PoolWeight(parts) == ExactSum(EligibleWeights(parts))

Shares(results) == [i \in 1..Len(results) |-> results[i].share_of_pool]
Rewards(results) == [i \in 1..Len(results) |-> results[i].estimated_masa_reward]

NotNegative(d) == ~d.neg

NonNegativeStakes(parts) ==
    \A i \in 1..Len(parts) :
        /\ ~parts[i].position.alpha_staked.neg
        /\ ~parts[i].position.masa_staked.neg

-----------------------------------------------------------------------------
(* C1 *)

\* C1, as claimed: whenever calculate_all_rewards returns records for
\* positions of non-negative stakes, their estimated_masa_reward sums to
\* TOTAL_REWARD_POOL within the rounding tolerance.
C1_RewardsSumToPool_AsClaimed ==
    (Called /\ ~Last.raised /\ LastResults # <<>> /\ NonNegativeStakes(participants))
        => Within(ExactSum(Rewards(LastResults)), TOTAL_REWARD_POOL, Epsilon)

\* C1, amended: whenever the total weight of the eligible stored positions is
\* greater than 0, the estimated_masa_reward of the returned records sums to
\* TOTAL_REWARD_POOL within the rounding tolerance; when it is not, the
\* rewards sum to 0.
C1_RewardsSumToPool ==
    (Called /\ ~Last.raised) =>
        IF DecGt(PoolWeight(participants), DecZero)
        THEN Within(ExactSum(Rewards(LastResults)), TOTAL_REWARD_POOL, Epsilon)
        ELSE IsZero(ExactSum(Rewards(LastResults)))

\* a call returned two records whose rewards are not whole fractions of
\* the pool: the pool weight is positive and no share is a multiple of 0.05
C1_Witness ==
    /\ Called /\ ~Last.raised
    /\ Len(LastResults) = 2
    /\ DecGt(PoolWeight(participants), DecZero)
    /\ \A i \in 1..2 : Len(LastResults[i].share_of_pool.dig) = PREC

-----------------------------------------------------------------------------
(* C2 *)

ShareIsQuotient(r, pool) ==
    Within(ExactMul(r.share_of_pool, pool), WeightOf(r.position),
           ExactMul(Epsilon, pool))

\* C2: whenever the total weight of the eligible stored positions is greater
\* than 0, the share_of_pool of the returned records sums to 1 within the
\* rounding tolerance, and each share_of_pool is its record's total_weight
\* divided by that total weight (the two differ by less than the tolerance).
C2_SharesSumToOne ==
    (Called /\ ~Last.raised /\ DecGt(PoolWeight(participants), DecZero)) =>
        /\ Within(ExactSum(Shares(LastResults)), Decimal(1), Epsilon)
        /\ \A i \in 1..Len(LastResults) :
              /\ LastResults[i].total_weight = WeightOf(LastResults[i].position)
              /\ ShareIsQuotient(LastResults[i], PoolWeight(participants))

\* a call returned two shares that rounding touched, of a positive pool, and
\* they do not sum to 1 exactly
C2_Witness ==
    /\ Called /\ ~Last.raised
    /\ Len(LastResults) = 2
    /\ DecGt(PoolWeight(participants), DecZero)
    /\ Len(LastResults[1].share_of_pool.dig) = PREC
    /\ ~IsZero(ExactAdd(ExactSum(Shares(LastResults)), Decimal(-1)))

-----------------------------------------------------------------------------
(* C3 *)

\* C3: calculate_all_rewards never raises; with no stored or no eligible
\* position it returns the empty list; and when eligible positions exist and
\* their total weight is 0, every record has share_of_pool 0 and
\* estimated_masa_reward 0.
C3_DegeneratePool ==
    Called =>
        /\ ~Last.raised
        /\ EligibleEntries(participants) = <<>> => LastResults = <<>>
        /\ (EligibleEntries(participants) # <<>> /\ IsZero(PoolWeight(participants))) =>
              /\ LastResults # <<>>
              /\ \A i \in 1..Len(LastResults) :
                    /\ IsZero(LastResults[i].share_of_pool)
                    /\ IsZero(LastResults[i].estimated_masa_reward)

\* a call returned records for eligible positions whose weights sum to 0
C3_Witness ==
    /\ Called /\ ~Last.raised
    /\ EligibleEntries(participants) # <<>>
    /\ IsZero(PoolWeight(participants))
    /\ LastResults # <<>>

-----------------------------------------------------------------------------
(* C4 *)

\* C4: program_end_date is launch_date + 120 days; calculate_individual_weights
\* returns None exactly for the positions that are not eligible; the records
\* calculate_all_rewards returns are those of the eligible stored positions,
\* in order, and they are the records it returns for the map without the
\* positions that are not eligible.
C4_EligibleOnly ==
    /\ program_end_date = launch_date + 120
    /\ \A i \in 1..Len(participants) :
          (IndividualWeights(participants[i].position, launch_date, program_end_date)
              = None) <=> ~Eligible(participants[i].position)
    /\ (Called /\ ~Last.raised) =>
          /\ HotkeysOf(LastResults) = HotkeysOf(EligibleEntries(participants))
          /\ LastResults =
                AllRewards(EligibleEntries(participants), launch_date,
                           program_end_date).results

\* a call returned one record for a map that holds an eligible position and
\* a position of masa_stake_months = 4 within the program window
C4_Witness ==
    /\ Called /\ ~Last.raised
    /\ Len(participants) = 2
    /\ Len(LastResults) = 1
    /\ \E i \in 1..2 :
          /\ participants[i].position.masa_stake_months = 4
          /\ participants[i].position.join_date = launch_date
          /\ ~IsZero(participants[i].position.masa_staked)

-----------------------------------------------------------------------------
(* C5 *)

Keys(parts) == {parts[i].hotkey : i \in 1..Len(parts)}
Lookup(parts, h) == parts[CHOOSE i \in 1..Len(parts) : parts[i].hotkey = h].position

\* C5: the map holds one position per hotkey; after add_participant(position)
\* the map's hotkeys are those it had and position.hotkey, position.hotkey
\* maps to position whatever the position is, and every other hotkey maps to
\* what it did; calculate_all_rewards returns at most one record per hotkey,
\* each with the position stored for its hotkey.
C5_Upsert ==
    [][/\ Distinct(HotkeysOf(participants'))
       /\ (returned' = <<>> /\ position' # None) =>
             /\ Keys(participants') = Keys(participants) \cup {position'.hotkey}
             /\ Lookup(participants', position'.hotkey) = position'
             /\ \A h \in Keys(participants) \ {position'.hotkey} :
                   Lookup(participants', h) = Lookup(participants, h)
       /\ returned' # <<>> =>
             /\ ~returned'[Len(returned')].raised
             /\ Distinct(HotkeysOf(returned'[Len(returned')].results))
             /\ \A i \in 1..Len(returned'[Len(returned')].results) :
                   returned'[Len(returned')].results[i].position
                       = Lookup(participants',
                                returned'[Len(returned')].results[i].hotkey)
      ]_vars

\* the hotkey stored first was added again after a second hotkey was stored,
\* with a position that is not eligible
C5_Witness ==
    /\ Len(participants) = 2
    /\ position # None
    /\ position.hotkey = participants[1].hotkey
    /\ participants[1].position = position
    /\ ~Eligible(position)

-----------------------------------------------------------------------------
(* C6 *)

ShareOf(results, h) ==
    results[CHOOSE i \in 1..Len(results) : results[i].hotkey = h].share_of_pool

RewardsOf(parts) == AllRewards(parts, launch_date, program_end_date).results

LargerAlpha(pos) == {a \in AlphaAmounts : DecGt(a, pos.alpha_staked)}
LargerMasa(pos) == {m \in MasaAmounts : DecGt(m, pos.masa_staked)}

\* the maps that differ from parts in entry i alone, by a larger amount
Increased(parts, i) ==
    {[parts EXCEPT ![i].position.alpha_staked = a] : a \in LargerAlpha(parts[i].position)}
        \cup
    {[parts EXCEPT ![i].position.masa_staked = m] : m \in LargerMasa(parts[i].position)}

\* what calculate_all_rewards returns for each map of Increased(parts, i)
RewardsIncreased(parts, i) == {RewardsOf(p) : p \in Increased(parts, i)}

StrictlyUp(before, after, h) == DecGt(ShareOf(after, h), ShareOf(before, h))
NotUp(before, after, h) == DecLe(ShareOf(after, h), ShareOf(before, h))

\* calculate_all_rewards has returned once since the map last changed
CalledOnce == Len(returned) = 1 /\ ~returned[1].raised

\* C6, as claimed: for stored positions of non-negative stakes, a larger
\* alpha_staked or masa_staked in one eligible position strictly increases
\* its share_of_pool and increases no other share_of_pool.
C6_Monotone_AsClaimed ==
    (CalledOnce /\ NonNegativeStakes(participants)) =>
        \A i \in 1..Len(participants) :
            Eligible(participants[i].position) =>
                \A after \in RewardsIncreased(participants, i) :
                    /\ StrictlyUp(LastResults, after, participants[i].hotkey)
                    /\ \A h \in Keys(LastResults) \ {participants[i].hotkey} :
                          NotUp(LastResults, after, h)

\* the total weight of the eligible positions other than entry i
OthersWeight(parts, i) ==
    ExactAdd(PoolWeight(parts),
             DecNeg(IF Eligible(parts[i].position) THEN WeightOf(parts[i].position)
                    ELSE DecZero))

\* C6, amended: when the pool's total weight is positive and the eligible
\* positions other than the one replaced have a positive total weight, a
\* larger alpha_staked or masa_staked strictly increases that position's
\* share_of_pool and increases the share_of_pool of no other position whose
\* weight is not negative.
C6_Monotone ==
    (CalledOnce /\ DecGt(PoolWeight(participants), DecZero)) =>
        \A i \in 1..Len(participants) :
            (Eligible(participants[i].position)
                /\ DecGt(OthersWeight(participants, i), DecZero)) =>
                \A after \in RewardsIncreased(participants, i) :
                    /\ StrictlyUp(LastResults, after, participants[i].hotkey)
                    /\ \A h \in Keys(LastResults) \ {participants[i].hotkey} :
                          NotNegative(WeightOf(Lookup(LastResults, h))) =>
                              NotUp(LastResults, after, h)

\* a call returned two records of positive weight, and the first position
\* can be given a larger amount
C6_Witness ==
    /\ CalledOnce
    /\ Len(LastResults) = 2
    /\ DecGt(OthersWeight(participants, 1), DecZero)
    /\ DecGt(WeightOf(participants[1].position), DecZero)
    /\ Increased(participants, 1) # {}

-----------------------------------------------------------------------------
(* C7 *)

\* C7: a step in which calculate_all_rewards returns leaves the participant
\* map, launch_date and program_end_date as they were, and returns what the
\* call before it returned when no add_participant came between.
C7_PureAndIdempotent ==
    [][returned' # <<>> =>
          /\ participants' = participants
          /\ launch_date' = launch_date
          /\ program_end_date' = program_end_date
          /\ returned # <<>> => returned'[Len(returned')] = returned[Len(returned)]
      ]_vars

\* two calls in a row returned, each one record for a map of two positions
C7_Witness ==
    /\ Len(returned) = 2
    /\ ~returned[1].raised
    /\ Len(returned[1].results) = 1
    /\ Len(participants) = 2
    /\ returned[2] = returned[1]

-----------------------------------------------------------------------------
(* C8 *)

\* the multiplier table, as the specification gives it
TableMultiplier(months) ==
    CASE months = 3 -> DecimalLit(10, -1)
      [] months = 6 -> DecimalLit(12, -1)
      [] months = 9 -> DecimalLit(15, -1)
      [] months = 12 -> DecimalLit(15, -1)

\* 120 * m = 120 - days * 0.75, which says m = 1.0 - (days / 120) * 0.75
IsTimeMultiplier(m, days) ==
    DecEq(ExactMul(m, Decimal(120)),
          ExactAdd(Decimal(120), DecNeg(ExactMul(Decimal(days), DecimalLit(75, -2)))))

WeightsAsSpecified(pos, w) ==
    /\ w.days_since_launch = pos.join_date - launch_date
    /\ IsTimeMultiplier(w.alpha_time_multiplier, w.days_since_launch)
    /\ pos.join_date = launch_date => w.alpha_time_multiplier = Decimal(1)
    /\ pos.join_date = program_end_date => w.alpha_time_multiplier = DecimalLit(25, -2)
    /\ DecLe(DecimalLit(25, -2), w.alpha_time_multiplier)
    /\ DecLe(w.alpha_time_multiplier, Decimal(1))
    /\ w.masa_multiplier = TableMultiplier(pos.masa_stake_months)
    /\ DecEq(w.alpha_weight, ExactMul(pos.alpha_staked, w.alpha_time_multiplier))
    /\ DecEq(w.masa_weight, ExactMul(pos.masa_staked, w.masa_multiplier))
    /\ DecEq(w.total_weight, ExactAdd(w.alpha_weight, w.masa_weight))

\* C8: for an eligible position calculate_individual_weights returns a dict
\* with days_since_launch = join_date - launch_date, alpha_time_multiplier =
\* 1.0 - (days_since_launch / 120) * 0.75 (1.0 on launch_date, 0.25 on
\* program_end_date, within [0.25, 1.0]), masa_multiplier from the table,
\* alpha_weight = alpha_staked * alpha_time_multiplier, masa_weight =
\* masa_staked * masa_multiplier and total_weight = alpha_weight + masa_weight.
C8_IndividualWeights ==
    [][(weights = None /\ Eligible(position)) =>
          /\ weights' # None
          /\ WeightsAsSpecified(position, weights')
      ]_vars

\* the call returned the weights of a position that joined on
\* program_end_date with a 12 month stake
C8_Witness ==
    /\ weights # None
    /\ position.join_date = program_end_date
    /\ position.masa_stake_months = 12
    /\ position.alpha_staked = Decimal(1000)
    /\ weights.alpha_weight = Decimal(250)
    /\ weights.masa_weight = Decimal(15000)

-----------------------------------------------------------------------------
(* C9 *)

\* C9, as claimed: every returned record has alpha_weight, masa_weight and
\* total_weight >= 0, share_of_pool in [0, 1] and estimated_masa_reward in
\* [0, TOTAL_REWARD_POOL].
C9_NonNegative_AsClaimed ==
    (Called /\ ~Last.raised) =>
        \A i \in 1..Len(LastResults) :
            /\ NotNegative(LastResults[i].alpha_weight)
            /\ NotNegative(LastResults[i].masa_weight)
            /\ NotNegative(LastResults[i].total_weight)
            /\ NotNegative(LastResults[i].share_of_pool)
            /\ DecLe(LastResults[i].share_of_pool, Decimal(1))
            /\ NotNegative(LastResults[i].estimated_masa_reward)
            /\ DecLe(LastResults[i].estimated_masa_reward, TOTAL_REWARD_POOL)

-----------------------------------------------------------------------------
(* C10 *)

\* C10, as claimed: no position with a negative alpha_staked or masa_staked is
\* ever stored by add_participant or reaches calculate_all_rewards.
C10_NoNegativeStake_AsClaimed ==
    /\ NonNegativeStakes(participants)
    /\ (Called /\ ~Last.raised) => NonNegativeStakes(LastResults)

====
